---- MODULE Spec2Model ----
(***************************************************************************)
(* A model of nkdbfi (src/src/main.rs): the host's bracket validation,     *)
(* the tokenizer Program::from_source and the execution engine             *)
(* Program::exec with its eight instruction handlers.                      *)
(*                                                                         *)
(* Indices are those of the code: ip and every instruction index are       *)
(* 0-based, so the instruction at index i is itape[i + 1].                 *)
(***************************************************************************)
EXTENDS Integers, Sequences, FiniteSets, TLC

(* ------------------------------ bounds --------------------------------- *)

\* longest source text enumerated exhaustively
MaxSrcLen == 4

\* most bytes the standard input delivers before it ends
MaxInLen == 2

\* the data pointer is kept within -MaxDp..MaxDp (the code's tape is unbounded);
\* at least MaxSrcLen, so that no program without loops is cut short
MaxDp == 4

\* a run writes no further character once MaxOut bytes have reached the output
\* sink (the code's output is unbounded); more than 2 * (MaxSrcLen - 1), so that
\* no program without loops is cut short
MaxOut == 8

(* --------------------------- program constants ------------------------- *)

\* number of values of a u8 cell
CellMod == 256

(* ------------------------------ inputs --------------------------------- *)

\* the eight instruction characters and one character that is none of them
Chars == {">", "<", "+", "-", ".", ",", "[", "]", "x"}

\* bytes the standard input may hold
InBytes == {0, 65, 255}

SeqsUpTo(S, n) == UNION {[1..k -> S] : k \in 0..n}

\* the end-to-end scenarios of the specification
Scenario1 == <<"+", "+", ".">>
Scenario2 == <<"+", "[", "-", ".", "]">>
Scenario3 == <<",", ".">>
Scenario4 == <<"[", "]">>
Scenario5 == <<"]">>
Scenario6 == <<"+", "+", "+", "[", ">", "+", "+", "+", "<", "-", "]", ">", ".">>

\* programs with nested loops, longer than MaxSrcLen
Nested1 == <<"+", "+", "[", ">", "[", "]", "<", "-", "]">>
Nested2 == <<"[", "[", "]", "+", "]", "+", "[", "[", "-", "]", "]">>
Nested3 == <<"+", "+", "[", ">", "+", "+", "[", "-", "]", "<", "-", "]", ".">>
Nested4 == <<",", "[", ">", "[", "[", "]", "]", "<", ",", "]">>

\* programs that print and read
InOut1 == <<"+", ",", "+", ",", ".">>
InOut2 == <<"+", ".", ",", ".">>
InOut3 == <<"-", ".", ",", "[", ".", ",", "]">>

\* malformed sources longer than MaxSrcLen
Bad1 == <<"+", ".", "[", "[", "]">>
Bad2 == <<"[", "]", ".", "]", "[">>

Scenarios ==
  {Scenario1, Scenario2, Scenario3, Scenario4, Scenario5, Scenario6,
   Nested1, Nested2, Nested3, Nested4, InOut1, InOut2, InOut3, Bad1, Bad2}

Sources == SeqsUpTo(Chars, MaxSrcLen) \cup Scenarios

(* ------------------------------- state --------------------------------- *)

VARIABLES
  source,      \* the program text read by main (prog)
  stdin,       \* Program.input: the bytes the iterator has yielded so far
  eof,         \* Program.input: the iterator has reported the end of the stream
  pc,          \* where the process is: "main", "rejected", "exec", "done", "panicked"
  dp,          \* Program.dp
  ip,          \* Program.ip
  len,         \* Program.len
  dtape,       \* Program.dtape: a function from the materialized addresses to cells
  itape,       \* Program.itape
  stdout_buf,  \* bytes print! left in stdout's buffer
  out,         \* bytes that reached the output sink
  jt           \* a second engine that jumps through a precomputed bracket index

vars == <<source, stdin, eof, pc, dp, ip, len, dtape, itape, stdout_buf, out, jt>>

(* ------------------------------ helpers -------------------------------- *)

\* an insert that loses the other entries' values
Insert_clobber(tape, k, v) ==
  [a \in (DOMAIN tape) \cup {k} |-> IF a = k THEN v ELSE 0]

\* HashMap::insert
Insert(tape, k, v) ==
  [a \in (DOMAIN tape) \cup {k} |-> IF a = k THEN v ELSE tape[a]]

\* a u8 printed as a char: code points below 128 are one byte of UTF-8, the others two
Utf8(c) ==
  IF c < 128 THEN <<c>> ELSE <<192 + (c \div 64), 128 + (c % 64)>>

\* print!: the bytes go to stdout's line buffer, which writes itself out through a
\* newline (code point 10) and keeps the rest
print_char(buf, sink, c) ==
  IF c = 10
    THEN [buf |-> <<>>, sink |-> sink \o buf \o Utf8(c)]
    ELSE [buf |-> buf \o Utf8(c), sink |-> sink]

\* a flush that is missing: the buffer keeps what print! left in it
Flush_skipped(w) == w

\* stdout().flush(): everything buffered reaches the sink
Flush(w) == [buf |-> <<>>, sink |-> w.sink \o w.buf]

\* an addition that saturates at 255 instead of wrapping
saturating_add(x) == IF x = CellMod - 1 THEN x ELSE x + 1

\* a move that clears the cell it arrives at on every visit
zero_fill_always(tape, a) == Insert(tape, a, 0)

\* a move that never materializes the cell it arrives at
zero_fill_never(tape, a) == tape

\* incp and decp: if !self.dtape.contains_key(&self.dp) { insert(self.dp, 0) }
zero_fill(tape, a) == IF a \in DOMAIN tape THEN tape ELSE Insert(tape, a, 0)

\* u8::wrapping_add(1)
wrapping_add(x) == (x + 1) % CellMod

\* u8::wrapping_sub(1)
wrapping_sub(x) == (x - 1) % CellMod

(* ---------------------- main: bracket validation ----------------------- *)

\* a scan that misses the check for a negative count: only the final count decides
RECURSIVE BracketScan_final_only(_, _, _)
BracketScan_final_only(prog, i, count) ==
  IF i > Len(prog) THEN count = 0
  ELSE IF prog[i] = "[" THEN BracketScan_final_only(prog, i + 1, count + 1)
  ELSE IF prog[i] = "]" THEN BracketScan_final_only(prog, i + 1, count - 1)
  ELSE BracketScan_final_only(prog, i + 1, count)

\* main's scan of prog.chars() from character i on with the running count:
\* TRUE when main goes on to run the program, FALSE when it returns early
RECURSIVE BracketScan(_, _, _)
BracketScan(prog, i, count) ==
  IF i > Len(prog) THEN count = 0
  ELSE IF prog[i] = "[" THEN BracketScan(prog, i + 1, count + 1)
  ELSE IF prog[i] = "]"
    THEN IF count - 1 < 0 THEN FALSE ELSE BracketScan(prog, i + 1, count - 1)
  ELSE BracketScan(prog, i + 1, count)

(* ----------------------------- tokenizer ------------------------------- *)

\* a match with the two pointer instructions exchanged
Push_swapped(tape, c) ==
  CASE c = ">" -> Append(tape, "DECP")
    [] c = "<" -> Append(tape, "INCP")
    [] c = "+" -> Append(tape, "INCC")
    [] c = "-" -> Append(tape, "DECC")
    [] c = "." -> Append(tape, "PCHR")
    [] c = "," -> Append(tape, "GCHR")
    [] c = "[" -> Append(tape, "LBRK")
    [] c = "]" -> Append(tape, "RBRK")
    [] OTHER   -> tape

\* the match of from_source: what one character appends to itape
Push(tape, c) ==
  CASE c = ">" -> Append(tape, "INCP")
    [] c = "<" -> Append(tape, "DECP")
    [] c = "+" -> Append(tape, "INCC")
    [] c = "-" -> Append(tape, "DECC")
    [] c = "." -> Append(tape, "PCHR")
    [] c = "," -> Append(tape, "GCHR")
    [] c = "[" -> Append(tape, "LBRK")
    [] c = "]" -> Append(tape, "RBRK")
    [] OTHER   -> tape

\* the loop of from_source over source.chars(), from character i on
RECURSIVE Tokenize(_, _, _)
Tokenize(src, i, tape) ==
  IF i > Len(src) THEN tape ELSE Tokenize(src, i + 1, Push(tape, src[i]))

(* ------------------------- the scanning engine ------------------------- *)

\* itape[i] for a usize i: an index outside the vector panics
InBounds(tape, i) == 0 <= i /\ i < Len(tape)

\* a forward scan that ignores nesting: it stops at the first RBRK
lbrk_count_flat(count, t) ==
  CASE t = "RBRK" -> count - 1
    [] OTHER      -> count

\* the nesting count after the forward scan has read token t
lbrk_count(count, t) ==
  CASE t = "LBRK" -> count + 1
    [] t = "RBRK" -> count - 1
    [] OTHER      -> count

\* the while loop of lbrk from ip = i with the given count: the ip it
\* ends with, or a panic on an index outside itape
RECURSIVE lbrk_scan(_, _, _)
lbrk_scan(tape, i, count) ==
  IF count = 0 THEN [panic |-> FALSE, ip |-> i]
  ELSE IF ~InBounds(tape, i) THEN [panic |-> TRUE, ip |-> i]
  ELSE lbrk_scan(tape, i + 1, lbrk_count(count, tape[i + 1]))

\* a backward scan that ignores nesting: it stops at the first LBRK
rbrk_count_flat(count, t) ==
  CASE t = "LBRK" -> count - 1
    [] OTHER      -> count

\* the nesting count after the backward scan has read token t
rbrk_count(count, t) ==
  CASE t = "RBRK" -> count + 1
    [] t = "LBRK" -> count - 1
    [] OTHER      -> count

\* self.ip -= 1 on a usize.  Below 0 a build with overflow checks panics; a
\* build without them wraps to usize::MAX, which is written -1 here (2^64 - 1
\* is beyond TLC's integers, and no other wrapped value arises: indexing
\* with it panics, and adding 2 to it wraps to 1).
ip_dec(i, overflow_checks) ==
  IF i = 0 /\ overflow_checks THEN [panic |-> TRUE, ip |-> i]
  ELSE [panic |-> FALSE, ip |-> i - 1]

\* the while loop of rbrk from ip = i with the given count: the ip it
\* ends with (one below the LBRK that brought the count to 0), or a panic
RECURSIVE rbrk_scan(_, _, _, _)
rbrk_scan(tape, i, count, overflow_checks) ==
  IF count = 0 THEN [panic |-> FALSE, ip |-> i]
  ELSE IF ~InBounds(tape, i) THEN [panic |-> TRUE, ip |-> i]
  ELSE LET d == ip_dec(i, overflow_checks)
       IN  IF d.panic THEN d
           ELSE rbrk_scan(tape, d.ip, rbrk_count(count, tape[i + 1]), overflow_checks)

\* a forward skip that lands one instruction too far
lbrk_skip_far(tape, i) ==
  LET r == lbrk_scan(tape, i + 1, 1) IN [r EXCEPT !.ip = @ + 1]

\* a forward skip that does not skip: the body is entered
lbrk_skip_none(tape, i) == [panic |-> FALSE, ip |-> i + 1]

\* the ip lbrk leaves when the cell is zero: lines 269 and 275-285
lbrk_skip(tape, i) == lbrk_scan(tape, i + 1, 1)

\* a backward jump that lands one instruction too far
rbrk_jump_far(tape, i, overflow_checks) ==
  LET d == ip_dec(i, overflow_checks)
  IN  IF d.panic THEN d
      ELSE LET r == rbrk_scan(tape, d.ip, 1, overflow_checks)
           IN  IF r.panic THEN r ELSE [panic |-> FALSE, ip |-> r.ip + 3]

\* the ip rbrk leaves when the cell is not zero: lines 304-318
rbrk_jump(tape, i, overflow_checks) ==
  LET d == ip_dec(i, overflow_checks)
  IN  IF d.panic THEN d
      ELSE LET r == rbrk_scan(tape, d.ip, 1, overflow_checks)
           IN  IF r.panic THEN r ELSE [panic |-> FALSE, ip |-> r.ip + 2]

\* a read that reports the end of the stream as 255
next_byte_eof255(item) == IF item = <<>> THEN 255 ELSE item[1]

\* the test of rbrk inverted: it leaves the loop when the cell is not zero
rbrk_exits_inverted(cell) == cell # 0

\* rbrk's test: the loop is left when the cell is zero
rbrk_exits(cell) == cell = 0

\* the test of lbrk inverted: it enters the loop when the cell is zero
lbrk_enters_inverted(cell) == cell = 0

\* a LoopOpen that enters its loop whatever the cell holds
lbrk_enters_always(cell) == TRUE

\* lbrk's test: the loop is entered when the cell is not zero
lbrk_enters(cell) == cell # 0

\* a read that keeps the low seven bits of the byte
next_byte_7bit(item) == IF item = <<>> THEN 0 ELSE item[1] % 128

\* self.input.next().unwrap_or(Ok(0)).unwrap(): the byte read, 0 at the end
\* of the stream
next_byte(item) == IF item = <<>> THEN 0 ELSE item[1]

\* what self.input.next() may yield: <<>> at the end of the stream (and ever
\* after), <<b>> for a byte b
NextItems ==
  IF eof \/ Len(stdin) >= MaxInLen THEN {<<>>}
  ELSE {<<>>} \cup {<<b>> : b \in InBytes}

\* a halt test that is off by one: the last instruction is never run
is_halted_early == ip + 1 >= len

\* Program::is_halted
is_halted == ip = len

\* exec fetches self.itape[self.ip]
Fetch(t) == pc = "exec" /\ ~is_halted /\ itape[ip + 1] = t

(* ----------------- the engine with a bracket index --------------------- *)

\* the matching-bracket index a reimplementation may precompute at
\* tokenization time: each bracket's partner, found with a stack of the open
\* LoopOpen positions
RECURSIVE BuildIndex(_, _, _, _)
BuildIndex(tape, i, stack, idx) ==
  IF i >= Len(tape) THEN idx
  ELSE IF tape[i + 1] = "LBRK" THEN BuildIndex(tape, i + 1, <<i>> \o stack, idx)
  ELSE IF tape[i + 1] = "RBRK" /\ stack # <<>>
    THEN BuildIndex(tape, i + 1, Tail(stack),
                    [idx EXCEPT ![i] = Head(stack), ![Head(stack)] = i])
  ELSE BuildIndex(tape, i + 1, stack, idx)

\* the indexed engine before it is constructed
JtNone == [index |-> <<>>, ip |-> 0, dp |-> 0, dtape |-> <<>>, out |-> <<>>]

\* the indexed engine as constructed for an instruction sequence
JtNew(tape) ==
  [index |-> BuildIndex(tape, 0, <<>>, [k \in 0..(Len(tape) - 1) |-> k]),
   ip |-> 0, dp |-> 0, dtape |-> Insert(<<>>, 0, 0), out |-> <<>>]

\* the indexed engine moving its data pointer to address a
JtMove(j, a) ==
  [j EXCEPT !.dp = a,
            !.dtape = IF a \in DOMAIN j.dtape THEN @ ELSE Insert(@, a, 0),
            !.ip = @ + 1]

\* one dispatch of the indexed engine; item is what the input stream yields
JtStep(j, tape, item) ==
  IF ~InBounds(tape, j.ip) THEN j
  ELSE LET t    == tape[j.ip + 1]
           cell == j.dtape[j.dp]
       IN  CASE t = "INCP" -> JtMove(j, j.dp + 1)
             [] t = "DECP" -> JtMove(j, j.dp - 1)
             [] t = "INCC" -> [j EXCEPT !.dtape[j.dp] = (cell + 1) % 256, !.ip = @ + 1]
             [] t = "DECC" -> [j EXCEPT !.dtape[j.dp] = (cell + 255) % 256, !.ip = @ + 1]
             [] t = "PCHR" -> [j EXCEPT !.out = @ \o Utf8(cell), !.ip = @ + 1]
             [] t = "GCHR" -> [j EXCEPT !.dtape[j.dp] = IF item = <<>> THEN 0 ELSE item[1],
                                        !.ip = @ + 1]
             [] t = "LBRK" -> [j EXCEPT !.ip = IF cell = 0 THEN j.index[j.ip] + 1 ELSE @ + 1]
             [] t = "RBRK" -> [j EXCEPT !.ip = IF cell = 0 THEN @ + 1 ELSE j.index[j.ip] + 1]

(* ------------------------------ actions -------------------------------- *)

Init ==
  /\ source \in Sources
  /\ stdin = <<>>
  /\ eof = FALSE
  /\ pc = "main"
  /\ dp = 0
  /\ ip = 0
  /\ len = 0
  /\ dtape = <<>>
  /\ itape = <<>>
  /\ stdout_buf = <<>>
  /\ out = <<>>
  /\ jt = JtNone

\* Program::from_source(&prog), followed by the entry into exec
from_source ==
  /\ pc = "main"
  /\ dp' = 0
  /\ ip' = 0
  /\ dtape' = Insert(<<>>, 0, 0)
  /\ itape' = Tokenize(source, 1, <<>>)
  /\ len' = Len(itape')
  /\ pc' = "exec"
  /\ jt' = JtNew(itape')
  /\ UNCHANGED <<source, stdin, eof, stdout_buf, out>>

\* main from the bracket scan on: reject the source, or construct the program
main ==
  /\ pc = "main"
  /\ IF BracketScan(source, 1, 0)
       THEN from_source
       ELSE /\ pc' = "rejected"
            /\ UNCHANGED <<source, stdin, eof, dp, ip, len, dtape, itape, stdout_buf, out, jt>>

incp ==
  /\ Fetch("INCP")
  /\ dp < MaxDp
  /\ dp' = dp + 1
  /\ dtape' = zero_fill(dtape, dp')
  /\ ip' = ip + 1
  /\ jt' = JtStep(jt, itape, <<>>)
  /\ UNCHANGED <<source, stdin, eof, pc, len, itape, stdout_buf, out>>

decp ==
  /\ Fetch("DECP")
  /\ dp > -MaxDp
  /\ dp' = dp - 1
  /\ dtape' = zero_fill(dtape, dp')
  /\ ip' = ip + 1
  /\ jt' = JtStep(jt, itape, <<>>)
  /\ UNCHANGED <<source, stdin, eof, pc, len, itape, stdout_buf, out>>

incc ==
  /\ Fetch("INCC")
  /\ dtape' = Insert(dtape, dp, wrapping_add(dtape[dp]))
  /\ ip' = ip + 1
  /\ jt' = JtStep(jt, itape, <<>>)
  /\ UNCHANGED <<source, stdin, eof, pc, dp, len, itape, stdout_buf, out>>

decc ==
  /\ Fetch("DECC")
  /\ dtape' = Insert(dtape, dp, wrapping_sub(dtape[dp]))
  /\ ip' = ip + 1
  /\ jt' = JtStep(jt, itape, <<>>)
  /\ UNCHANGED <<source, stdin, eof, pc, dp, len, itape, stdout_buf, out>>

\* an OutputCell that forgets ip += 1
pchr_no_advance ==
  /\ Fetch("PCHR")
  /\ Len(out) < MaxOut
  /\ LET w == Flush(print_char(stdout_buf, out, dtape[dp]))
     IN  /\ stdout_buf' = w.buf
         /\ out' = w.sink
  /\ jt' = JtStep(jt, itape, <<>>)
  /\ UNCHANGED <<source, stdin, eof, pc, dp, ip, len, dtape, itape>>

pchr ==
  /\ Fetch("PCHR")
  /\ Len(out) < MaxOut
  /\ LET w == Flush(print_char(stdout_buf, out, dtape[dp]))
     IN  /\ stdout_buf' = w.buf
         /\ out' = w.sink
  /\ ip' = ip + 1
  /\ jt' = JtStep(jt, itape, <<>>)
  /\ UNCHANGED <<source, stdin, eof, pc, dp, len, dtape, itape>>

gchr ==
  /\ Fetch("GCHR")
  /\ \E item \in NextItems :
       /\ stdin' = stdin \o item
       /\ eof' = (item = <<>>)
       /\ dtape' = Insert(dtape, dp, next_byte(item))
       /\ jt' = JtStep(jt, itape, item)
  /\ ip' = ip + 1
  /\ UNCHANGED <<source, pc, dp, len, itape, stdout_buf, out>>

lbrk ==
  /\ Fetch("LBRK")
  /\ IF lbrk_enters(dtape[dp])
       THEN ip' = ip + 1 /\ pc' = pc
       ELSE LET r == lbrk_skip(itape, ip)
            IN  IF r.panic THEN ip' = ip /\ pc' = "panicked"
                ELSE ip' = r.ip /\ pc' = pc
  /\ jt' = JtStep(jt, itape, <<>>)
  /\ UNCHANGED <<source, stdin, eof, dp, len, dtape, itape, stdout_buf, out>>

rbrk ==
  /\ Fetch("RBRK")
  /\ IF rbrk_exits(dtape[dp])
       THEN ip' = ip + 1 /\ pc' = pc
       ELSE \E overflow_checks \in BOOLEAN :
              LET r == rbrk_jump(itape, ip, overflow_checks)
              IN  IF r.panic THEN ip' = ip /\ pc' = "panicked"
                  ELSE ip' = r.ip /\ pc' = pc
  /\ jt' = JtStep(jt, itape, <<>>)
  /\ UNCHANGED <<source, stdin, eof, dp, len, dtape, itape, stdout_buf, out>>

\* exec's loop ends and main returns
exec_return ==
  /\ pc = "exec"
  /\ is_halted
  /\ pc' = "done"
  /\ UNCHANGED <<source, stdin, eof, dp, ip, len, dtape, itape, stdout_buf, out, jt>>

Next ==
  \/ main
  \/ incp
  \/ decp
  \/ incc
  \/ decc
  \/ pchr
  \/ gchr
  \/ lbrk
  \/ rbrk
  \/ exec_return

Spec == Init /\ [][Next]_vars

\* the tokenizer applied to every source text, balanced or not
SpecTok == Init /\ [][from_source]_vars

(* ------------------- notions the properties are stated in -------------- *)

\* the number of the first n characters of prog that are c
CountChar(prog, n, c) == Cardinality({i \in 1..n : prog[i] = c})

\* the bracket counter after the first n characters of prog
Counter(prog, n) == CountChar(prog, n, "[") - CountChar(prog, n, "]")

\* the counter never goes negative and is zero at the end of the source
Balanced(prog) ==
  /\ \A n \in 0..Len(prog) : Counter(prog, n) >= 0
  /\ Counter(prog, Len(prog)) = 0

\* LoopOpens minus LoopCloses among the instructions at indices a..b
Nesting(tape, a, b) ==
  Cardinality({i \in a..b : tape[i + 1] = "LBRK"})
    - Cardinality({i \in a..b : tape[i + 1] = "RBRK"})

\* the LoopOpen at index j and the LoopClose at index m match: the
\* instructions between them are balanced
Matches(tape, j, m) ==
  /\ j < m
  /\ tape[j + 1] = "LBRK"
  /\ tape[m + 1] = "RBRK"
  /\ \A e \in (j + 1)..(m - 1) : Nesting(tape, j + 1, e) >= 0
  /\ Nesting(tape, j + 1, m - 1) = 0

\* the characters that are instructions
InstrChars == {">", "<", "+", "-", ".", ",", "[", "]"}

\* the position in src of its k-th instruction character
InstrPos(src, k) ==
  CHOOSE i \in 1..Len(src) :
    /\ src[i] \in InstrChars
    /\ Cardinality({h \in 1..i : src[h] \in InstrChars}) = k

\* the value of address a: an address without an entry counts as 0
CellAt(tape, a) == IF a \in DOMAIN tape THEN tape[a] ELSE 0

\* every address the bounded data pointer can reach, and one more on each side
Addresses == (-MaxDp - 1)..(MaxDp + 1)

\* the source has no bracket
NoLoops(src) == \A i \in 1..Len(src) : src[i] \notin {"[", "]"}

(* ------------------------------ properties ----------------------------- *)

\* C1: the host runs the program if and only if the source's brackets are
\* balanced.  Once main has decided, the process is rejected exactly when the
\* counter goes negative somewhere or is nonzero at the end; a rejected
\* process has built no program, executed nothing, written nothing and read
\* nothing, and can take no further step; any other process is executing or
\* has finished executing the tokenized source.
C1_RunsIffBalanced ==
  pc # "main" =>
    /\ (pc = "rejected") <=> ~Balanced(source)
    /\ pc = "rejected" =>
         /\ itape = <<>> /\ ip = 0 /\ dp = 0 /\ dtape = <<>>
         /\ out = <<>> /\ stdout_buf = <<>>
         /\ stdin = <<>> /\ ~eof
         /\ ~ENABLED Next
    /\ pc # "rejected" =>
         /\ pc \in {"exec", "done"}
         /\ len = Cardinality({i \in 1..Len(source) : source[i] \in InstrChars})

\* a source whose counter goes negative in the middle has been rejected
C1_Witness == pc = "rejected" /\ source = Bad2

\* C2: at a LoopClose at index k, a zero cell sets ip to k+1 and a nonzero
\* cell sets ip to j+1, where j is the LoopOpen matching k at the same
\* nesting depth; this holds at every dispatch of the LoopClose.
C2_LoopCloseStep ==
  [][Fetch("RBRK") =>
       /\ pc' = "exec"
       /\ IF dtape[dp] = 0
            THEN ip' = ip + 1
            ELSE \E j \in 0..(ip - 1) : Matches(itape, j, ip) /\ ip' = j + 1]_vars

\* the outer loop of Nested1 has jumped back over its inner loop, to the first
\* instruction of its body
C2_Witness ==
  pc = "exec" /\ source = Nested1 /\ ip = 3 /\ dp = 0 /\ dtape[0] = 1

\* C3: at a LoopOpen at index j, a nonzero cell sets ip to j+1 and a zero
\* cell sets ip to m+1, where m is the LoopClose matching j at the same
\* nesting depth.
C3_LoopOpenStep ==
  [][Fetch("LBRK") =>
       /\ pc' = "exec"
       /\ IF dtape[dp] # 0
            THEN ip' = ip + 1
            ELSE \E m \in (ip + 1)..(len - 1) : Matches(itape, ip, m) /\ ip' = m + 1]_vars

\* the first loop of Nested2, which holds a nested loop, has been skipped whole
C3_Witness ==
  pc = "exec" /\ source = Nested2 /\ ip = 5 /\ dtape[0] = 0 /\ out = <<>>

\* C4: the tokenizer's output has one instruction for each instruction
\* character of the source, in the order of the source, each character mapped
\* to its own instruction, every other character dropped; and it accepts
\* every source text.
C4_Tokenizer ==
  /\ pc \in {"main", "exec"}
  /\ pc = "main" => ENABLED from_source
  /\ pc = "exec" =>
       /\ Len(itape) = Cardinality({i \in 1..Len(source) : source[i] \in InstrChars})
       /\ len = Len(itape)
       /\ \A k \in 1..Len(itape) :
            LET c == source[InstrPos(source, k)]
            IN  /\ c = ">" <=> itape[k] = "INCP"
                /\ c = "<" <=> itape[k] = "DECP"
                /\ c = "+" <=> itape[k] = "INCC"
                /\ c = "-" <=> itape[k] = "DECC"
                /\ c = "." <=> itape[k] = "PCHR"
                /\ c = "," <=> itape[k] = "GCHR"
                /\ c = "[" <=> itape[k] = "LBRK"
                /\ c = "]" <=> itape[k] = "RBRK"

\* an unbalanced source with two other characters has been tokenized
C4_Witness ==
  /\ pc = "exec"
  /\ source = <<"x", "]", "x", ">">>
  /\ itape = <<"RBRK", "INCP">>

\* C5: cell arithmetic is modulo 256.  IncCell turns 255 into 0 and any
\* other value v into v+1, DecCell turns 0 into 255 and any other value v
\* into v-1, neither stops the run, and every cell of the tape is in 0..255
\* in every reachable state.
C5_CellArithmetic ==
  /\ [][/\ Fetch("INCC") =>
             /\ dtape'[dp] = IF dtape[dp] = 255 THEN 0 ELSE dtape[dp] + 1
             /\ pc' = "exec" /\ ip' = ip + 1
        /\ Fetch("DECC") =>
             /\ dtape'[dp] = IF dtape[dp] = 0 THEN 255 ELSE dtape[dp] - 1
             /\ pc' = "exec" /\ ip' = ip + 1]_vars
  /\ [](\A a \in DOMAIN dtape : dtape[a] \in 0..255)

\* a cell decremented from 0 to 255 has been incremented back to 0
C5_Witness ==
  pc = "exec" /\ source = <<"-", "+">> /\ ip = 2 /\ dtape[0] = 0

\* C6: an InputCell that finds the input stream exhausted stores 0 at the
\* current cell, advances ip by 1 and leaves the run going, whether it is the
\* first read to find the end of the stream or a later one.
C6_InputAtEnd ==
  [][Fetch("GCHR") /\ eof' =>
       /\ dtape'[dp] = 0
       /\ dp' = dp
       /\ ip' = ip + 1
       /\ pc' = "exec"
       /\ stdin' = stdin]_vars

\* the second InputCell of InOut1, run on an empty stream, has overwritten a 1
\* with 0 after the first one had found the end of the stream
C6_Witness ==
  /\ pc = "exec" /\ source = InOut1
  /\ stdin = <<>> /\ eof
  /\ ip = 4 /\ dtape[0] = 0

\* C7: scenario 6, +++[>+++<-]>. , halts, and its whole output is the one
\* character with code point 9.
C7_Scenario6 ==
  source = Scenario6 =>
    /\ pc \in {"main", "exec", "done"}
    /\ pc = "done" \/ ENABLED Next
    /\ Len(out) <= 1
    /\ pc = "done" => out = <<9>> /\ stdout_buf = <<>> /\ stdin = <<>>

\* scenario 6 has halted
C7_Witness == source = Scenario6 /\ pc = "done" /\ out = <<9>>

\* C8: scenario 2, +[-.] , writes the one character with code point 0 and
\* halts; the cell is 0 whenever its LoopClose is dispatched, so the body runs
\* once.
C8_Scenario2 ==
  source = Scenario2 =>
    /\ pc \in {"main", "exec", "done"}
    /\ pc = "done" \/ ENABLED Next
    /\ Len(out) <= 1
    /\ Fetch("RBRK") => dtape[dp] = 0 /\ out = <<0>>
    /\ pc = "done" => out = <<0>> /\ stdout_buf = <<>> /\ stdin = <<>>

\* scenario 2 has halted
C8_Witness == source = Scenario2 /\ pc = "done" /\ out = <<0>>

\* C9: the engine that jumps through the precomputed bracket index and the
\* scanning engine are in the same state (ip, dp, tape contents) at every
\* instruction boundary and have written the same output.
C9_IndexedEngineEquivalent ==
  pc \in {"exec", "done"} =>
    /\ jt.ip = ip
    /\ jt.dp = dp
    /\ jt.dtape = dtape
    /\ jt.out = out

\* both engines have run Nested3, with its nested loops, to the end
C9_Witness ==
  /\ source = Nested3 /\ pc = "done"
  /\ jt.ip = len /\ jt.out = <<0>> /\ jt.dtape = (0 :> 0 @@ 1 :> 0)

\* C10: every OutputCell writes the cell and flushes it before ip advances,
\* so no output is left unflushed when an InputCell is about to read.
C10_FlushedBeforeRead ==
  /\ [][Fetch("PCHR") =>
          /\ out' = out \o Utf8(dtape[dp])
          /\ stdout_buf' = <<>>
          /\ ip' = ip + 1]_vars
  /\ [](Fetch("GCHR") => stdout_buf = <<>>)

\* the InputCell of InOut2 is about to read, and the character written before
\* it has reached the sink
C10_Witness ==
  pc = "exec" /\ source = InOut2 /\ ip = 2 /\ out = <<1>> /\ stdout_buf = <<>>

\* C11: at every instruction boundary of a validated program ip is in 0..N,
\* N the instruction count; an instruction is fetched only at an ip in
\* 0..N-1, by the dispatch loop and by the forward scan alike, and no fetch
\* outside the program ever stops the run.
C11_IpInProgram ==
  /\ pc \in {"main", "rejected", "exec", "done"}
  /\ pc \in {"exec", "done"} =>
       /\ len = Len(itape)
       /\ ip \in 0..len
       /\ pc = "exec" /\ ~is_halted => ip \in 0..(len - 1)
       /\ Fetch("LBRK") /\ dtape[dp] = 0 =>
            /\ ~lbrk_skip(itape, ip).panic
            /\ lbrk_skip(itape, ip).ip \in (ip + 2)..len

\* the skip of the loop of scenario 4 has brought ip to N
C11_Witness ==
  pc = "exec" /\ source = Scenario4 /\ len = 2 /\ ip = 2

\* C12: the tape holds an entry for the current data pointer in every
\* reachable state of the engine, and for address 0 from construction on, so
\* every read of Tape[dp] finds its address.
C12_DpMaterialized ==
  pc \in {"exec", "done"} =>
    /\ 0 \in DOMAIN dtape
    /\ dp \in DOMAIN dtape
    /\ dtape[dp] \in 0..255

\* the data pointer has moved two cells to the left of address 0
C12_Witness ==
  pc = "exec" /\ source = <<"<", "<">> /\ dp = -2 /\ DOMAIN dtape = {-2, -1, 0}

\* C13: zero-fill happens only on the first visit.  The addresses with an
\* entry are exactly those the data pointer has visited (a run of consecutive
\* addresses around 0); a move onto an address without an entry finds 0
\* there, and a move onto an address with one finds the value it held, to the
\* left as to the right, below 0 as above.
C13_ZeroFillOnFirstVisit ==
  /\ [][Fetch("INCP") \/ Fetch("DECP") =>
          /\ dp' = IF Fetch("INCP") THEN dp + 1 ELSE dp - 1
          /\ dp' \in DOMAIN dtape'
          /\ dtape'[dp'] = IF dp' \in DOMAIN dtape THEN dtape[dp'] ELSE 0]_vars
  /\ [](pc \in {"exec", "done"} =>
          \E lo \in Addresses, hi \in Addresses :
            lo <= 0 /\ 0 <= hi /\ DOMAIN dtape = lo..hi /\ dp \in lo..hi)

\* the data pointer has left address -1 and come back to it, and the 255
\* written there is still there
C13_Witness ==
  /\ pc = "exec" /\ source = <<"<", "-", ">", "<">>
  /\ ip = 4 /\ dp = -1 /\ dtape[-1] = 255

\* C14: cell values are changed only by IncCell, DecCell and InputCell, and
\* only at the data pointer.  The other five instructions leave the value of
\* every address as it was (an address without an entry counting as 0); these
\* three leave the data pointer and every other address as they were.
C14_CellFrame ==
  [][/\ (Fetch("INCP") \/ Fetch("DECP") \/ Fetch("PCHR") \/ Fetch("LBRK") \/ Fetch("RBRK")) =>
          \A a \in Addresses : CellAt(dtape', a) = CellAt(dtape, a)
     /\ (Fetch("INCC") \/ Fetch("DECC") \/ Fetch("GCHR")) =>
          /\ dp' = dp
          /\ \A a \in Addresses \ {dp} : CellAt(dtape', a) = CellAt(dtape, a)
     /\ pc \in {"main", "rejected", "done"} \/ is_halted =>
          \A a \in Addresses : CellAt(dtape', a) = CellAt(dtape, a)]_vars

\* a DecCell at address 1 has left the 1 at address 0 alone
C14_Witness ==
  /\ pc = "exec" /\ source = <<"+", ">", "-">>
  /\ ip = 3 /\ dp = 1 /\ dtape = (0 :> 1 @@ 1 :> 255)

\* C15: a loop entered with a zero cell never executes its body.  A LoopOpen
\* dispatched on a zero cell changes ip alone, to one past its matching
\* LoopClose: dp, the tape, the output and the consumed input stay as they
\* were.  A program that starts with a LoopOpen is never inside that first
\* loop, and the source [] halts without output.
C15_ZeroCellSkipsBody ==
  /\ [][Fetch("LBRK") /\ dtape[dp] = 0 =>
          /\ UNCHANGED <<dp, dtape, out, stdout_buf, stdin, eof>>
          /\ pc' = "exec"
          /\ \E m \in (ip + 1)..(len - 1) : Matches(itape, ip, m) /\ ip' = m + 1]_vars
  /\ [](pc \in {"exec", "done"} /\ len > 0 /\ itape[1] = "LBRK" =>
          \E m \in 1..(len - 1) : Matches(itape, 0, m) /\ (ip = 0 \/ ip > m))
  /\ [](source = Scenario4 /\ pc # "main" =>
          /\ pc \in {"exec", "done"}
          /\ ip \in {0, 2}
          /\ out = <<>> /\ stdout_buf = <<>> /\ stdin = <<>> /\ dtape = (0 :> 0)
          /\ pc = "done" \/ ENABLED Next)

\* a first loop that would increment and print has been skipped, and the run
\* has halted with nothing written and the cell still 0
C15_Witness ==
  /\ pc = "done" /\ source = <<"[", "+", ".", "]">>
  /\ out = <<>> /\ dtape = (0 :> 0)

\* C16: the run halts exactly when ip equals the instruction count N.  While
\* ip < N the loop does not end; once ip = N the loop ends without another
\* instruction, and ip, dp, the tape, the output and the input never change
\* again.  The empty program halts in the initial state of the engine, with
\* no output and no input read.
C16_HaltsAtN ==
  /\ [][(ip = len /\ pc \in {"exec", "done"}) =>
          (/\ pc = "exec"
           /\ pc' = "done"
           /\ UNCHANGED <<ip, dp, len, dtape, itape, out, stdout_buf, stdin, eof>>)]_vars
  /\ [][pc = "exec" /\ ip < len => (pc' = "exec")]_vars
  /\ [](pc = "exec" => (ENABLED exec_return <=> ip = len))
  /\ [](pc = "done" => ip = len /\ ~ENABLED Next)
  /\ [](source = <<>> /\ pc # "main" =>
          /\ pc \in {"exec", "done"}
          /\ len = 0 /\ ip = 0 /\ dp = 0 /\ dtape = (0 :> 0)
          /\ out = <<>> /\ stdout_buf = <<>> /\ stdin = <<>> /\ ~eof)

\* a program has run its last instruction and halted; the empty program is
\* covered by the formula's last part
C16_Witness ==
  pc = "done" /\ source = <<"+", ".">> /\ ip = 2 /\ out = <<1>>

\* C17: in a validated program the backward scan of LoopClose never takes
\* ip below 0, not even between its steps: the lowest value it holds, the one
\* it leaves the loop with, is at least 0, in a build with overflow checks as
\* in one without.  The LoopClose matching a LoopOpen at index 0 is never
\* dispatched on a nonzero cell.
C17_BackwardScanStaysAbove0 ==
  Fetch("RBRK") /\ dtape[dp] # 0 =>
    /\ ip >= 2
    /\ ~Matches(itape, 0, ip)
    /\ \A overflow_checks \in BOOLEAN :
         LET d == ip_dec(ip, overflow_checks)
             r == rbrk_scan(itape, d.ip, 1, overflow_checks)
         IN  /\ ~d.panic /\ d.ip >= 0
             /\ ~r.panic /\ r.ip >= 0
             /\ rbrk_jump(itape, ip, overflow_checks) = [panic |-> FALSE, ip |-> r.ip + 2]

\* the loop opened at index 1, the lowest a backward jump can go to, has
\* jumped back: the scan went down to ip 0
C17_Witness ==
  /\ pc = "exec" /\ source = <<"+", "[", "+", "]">>
  /\ ip = 2 /\ dtape[0] = 2

\* C18: a program without LoopOpen and LoopClose halts after exactly N
\* dispatches.  Every dispatch takes ip to ip + 1, so the instruction at
\* index i is the (i+1)-th one dispatched, once; the run is never stuck
\* before ip = N, and it is done only there.
C18_StraightLineHalts ==
  /\ [][NoLoops(source) /\ pc = "exec" /\ ip < len =>
          (ip' = ip + 1 /\ pc' = "exec")]_vars
  /\ [](NoLoops(source) =>
          /\ pc \in {"main", "exec", "done"}
          /\ pc = "exec" => ip \in 0..len /\ ENABLED Next
          /\ pc = "done" => ip = len)

\* four moves to the right, on no input, have been run and the run is done
C18_Witness ==
  pc = "done" /\ source = <<">", ">", ">", ">">> /\ ip = 4 /\ dp = 4

\* C19: input bytes are consumed in order, one per executed InputCell and by
\* no other instruction.  An InputCell either takes the next byte of the
\* stream, which is added at the end of the bytes read so far, and stores
\* that byte at the data pointer, or finds the stream at its end and stores
\* 0; what the cell held before plays no part.  Once at its end the stream
\* stays there.
C19_InputInOrder ==
  /\ [][Fetch("GCHR") =>
          /\ eof => eof'
          /\ IF eof'
               THEN stdin' = stdin /\ dtape'[dp] = 0
               ELSE /\ Len(stdin') = Len(stdin) + 1
                    /\ SubSeq(stdin', 1, Len(stdin)) = stdin
                    /\ dtape'[dp] = stdin'[Len(stdin')]]_vars
  /\ [][~Fetch("GCHR") => UNCHANGED <<stdin, eof>>]_vars

\* two InputCells have stored the first and the second byte of the stream
C19_Witness ==
  /\ pc = "exec" /\ source = <<",", ">", ",">>
  /\ ip = 3 /\ stdin = <<255, 65>> /\ dtape = (0 :> 255 @@ 1 :> 65)

====
